---- MODULE Spec2Model ----
(***************************************************************************)
(* State-machine model of the ink! ERC-20 contract in src/lib.rs.          *)
(*                                                                         *)
(* The contract storage is the struct Erc20 (total_supply, balances,       *)
(* allowances).  The two Mappings are partial functions: a key that was    *)
(* never inserted is absent and reads as 0 (unwrap_or_default).  The host  *)
(* environment contributes the caller of each message, the list of emitted *)
(* events, and the value each message returns.                             *)
(***************************************************************************)
EXTENDS Integers, Sequences, FiniteSets

\* Account identifiers are opaque; the unit tests use the default accounts.
Accounts == {"alice", "bob", "charlie"}

\* Two of them: enough for an owner and a spender, explored one call deeper.
Pair == {"alice", "bob"}

\* Largest `value` / `total_supply` argument explored, and the longest event
\* list explored (the mint event included) with all accounts and with a pair.
MaxValue == 2
MaxSupply == 2
MaxEvents == 2
MaxPairEvents == 3

\* The longest event list explored when the queries are called as well.
MaxQueryEvents == 2

\* The single caller of the runs in which every call is made by one account,
\* and the longest event list explored in them.
Solo == {"alice"}

MaxSoloEvents == 3

Values == 0 .. MaxValue
Supplies == 0 .. MaxSupply

VARIABLES total_supply, balances, allowances, events, result

\* History of the calls, kept beside the contract and never read by it: for
\* each ordered pair (owner, spender) the value of the owner's most recent
\* approve and the total value the spender has moved out of the owner by
\* successful transfer_from calls since then (no entry reads as 0).
VARIABLES approved, moved

vars == <<total_supply, balances, allowances, events, result, approved, moved>>

----------------------------------------------------------------------------
\* ink::storage::Mapping

\* Mapping::default(): no key present.
EmptyMapping == [k \in {} |-> 0]

\* Mapping::insert(key, &value): creates or overwrites the entry of key.
Insert(m, k, v) == [x \in (DOMAIN m) \cup {k} |-> IF x = k THEN v ELSE m[x]]

\* Mapping::get(key).unwrap_or_default(): an absent key reads as 0.
GetOrDefault(m, k) == IF k \in DOMAIN m THEN m[k] ELSE 0

----------------------------------------------------------------------------
\* Events and results

\* Option<AccountId>: None is distinct from every Some(account).
None == "None"

Transfer(from, to, value) ==
    [kind |-> "Transfer", from |-> from, to |-> to, value |-> value]

Approval(owner, spender, value) ==
    [kind |-> "Approval", owner |-> owner, spender |-> spender, value |-> value]

Ok == "Ok"
InsufficientBalance == "InsufficientBalance"
InsufficientAllowance == "InsufficientAllowance"

----------------------------------------------------------------------------
\* Queries

balance_of_impl(bal, owner) == GetOrDefault(bal, owner)

allowance_impl(alw, owner, spender) == GetOrDefault(alw, <<owner, spender>>)

balance_of(owner) == balance_of_impl(balances, owner)

allowance(owner, spender) == allowance_impl(allowances, owner, spender)

----------------------------------------------------------------------------
\* Constructor

\* Variant of new: total_supply is left at its Default value.
new_DefaultSupply(caller, supply) ==
    [total_supply |-> 0,
     balances     |-> Insert(EmptyMapping, caller, supply),
     allowances   |-> EmptyMapping,
     events       |-> <<Transfer(None, caller, supply)>>]

\* Erc20::new(total_supply) called by caller: the storage and the event list
\* it leaves behind.
new(caller, supply) ==
    [total_supply |-> supply,
     balances     |-> Insert(EmptyMapping, caller, supply),
     allowances   |-> EmptyMapping,
     events       |-> <<Transfer(None, caller, supply)>>]

\* The state right after construction by one of the accounts in A.
Constructed(A) ==
    \E caller \in A, supply \in Supplies :
        /\ total_supply = new(caller, supply).total_supply
        /\ balances = new(caller, supply).balances
        /\ allowances = new(caller, supply).allowances
        /\ events = new(caller, supply).events
        /\ result = [op |-> "new", res |-> Ok]

\* No call has been made yet.
NoCalls ==
    /\ approved = EmptyMapping
    /\ moved = EmptyMapping

Init == Constructed(Accounts) /\ NoCalls

InitPair == Constructed(Pair) /\ NoCalls

InitSolo == Constructed(Solo) /\ NoCalls

----------------------------------------------------------------------------
\* The balance-move primitive.  It works on the balances Mapping and the
\* event list and yields the returned value together with both.

\* Variant: to's balance is read before from's debit is written.
transfer_from_to_StaleCredit(bal, ev, from, to, value) ==
    LET from_balance == balance_of_impl(bal, from)
        to_balance   == balance_of_impl(bal, to)
    IN  IF from_balance < value
        THEN [res |-> InsufficientBalance, balances |-> bal, events |-> ev]
        ELSE [res |-> Ok,
              balances |-> Insert(Insert(bal, from, from_balance - value),
                                  to, to_balance + value),
              events |-> Append(ev, Transfer(from, to, value))]

\* Variant: the credit to `to` is missing.
transfer_from_to_NoCredit(bal, ev, from, to, value) ==
    LET from_balance == balance_of_impl(bal, from) IN
    IF from_balance < value
    THEN [res |-> InsufficientBalance, balances |-> bal, events |-> ev]
    ELSE [res |-> Ok, balances |-> Insert(bal, from, from_balance - value),
          events |-> Append(ev, Transfer(from, to, value))]

\* Variant: the Transfer event is emitted before the balance check.
transfer_from_to_LateCheck(bal, ev, from, to, value) ==
    LET from_balance == balance_of_impl(bal, from)
        emitted      == Append(ev, Transfer(from, to, value))
    IN  IF from_balance < value
        THEN [res |-> InsufficientBalance, balances |-> bal, events |-> emitted]
        ELSE LET debited    == Insert(bal, from, from_balance - value)
                 to_balance == balance_of_impl(debited, to)
             IN  [res |-> Ok, balances |-> Insert(debited, to, to_balance + value),
                  events |-> emitted]

\* Variant: the balance check lets through a value one above the balance.
transfer_from_to_OffByOne(bal, ev, from, to, value) ==
    LET from_balance == balance_of_impl(bal, from) IN
    IF from_balance + 1 < value
    THEN [res |-> InsufficientBalance, balances |-> bal, events |-> ev]
    ELSE LET debited    == Insert(bal, from, from_balance - value)
             to_balance == balance_of_impl(debited, to)
         IN  [res |-> Ok, balances |-> Insert(debited, to, to_balance + value),
              events |-> Append(ev, Transfer(from, to, value))]

\* Variant: the balance must exceed the value.
transfer_from_to_StrictBalance(bal, ev, from, to, value) ==
    LET from_balance == balance_of_impl(bal, from) IN
    IF from_balance <= value
    THEN [res |-> InsufficientBalance, balances |-> bal, events |-> ev]
    ELSE LET debited    == Insert(bal, from, from_balance - value)
             to_balance == balance_of_impl(debited, to)
         IN  [res |-> Ok, balances |-> Insert(debited, to, to_balance + value),
              events |-> Append(ev, Transfer(from, to, value))]

\* Variant: a transfer to oneself returns early, without an event.
transfer_from_to_SkipSelf(bal, ev, from, to, value) ==
    LET from_balance == balance_of_impl(bal, from) IN
    IF from_balance < value
    THEN [res |-> InsufficientBalance, balances |-> bal, events |-> ev]
    ELSE IF from = to
    THEN [res |-> Ok, balances |-> bal, events |-> ev]
    ELSE LET debited    == Insert(bal, from, from_balance - value)
             to_balance == balance_of_impl(debited, to)
         IN  [res |-> Ok, balances |-> Insert(debited, to, to_balance + value),
              events |-> Append(ev, Transfer(from, to, value))]

transfer_from_to(bal, ev, from, to, value) ==
    LET from_balance == balance_of_impl(bal, from) IN
    IF from_balance < value
    THEN [res |-> InsufficientBalance, balances |-> bal, events |-> ev]
    ELSE LET debited    == Insert(bal, from, from_balance - value)
             to_balance == balance_of_impl(debited, to)
             credited   == Insert(debited, to, to_balance + value)
         IN  [res |-> Ok, balances |-> credited,
              events |-> Append(ev, Transfer(from, to, value))]

----------------------------------------------------------------------------
\* Messages

\* The read-only messages: each returns what it reads (&self).
total_supply_msg ==
    /\ result' = [op |-> "total_supply", res |-> total_supply]
    /\ UNCHANGED <<total_supply, balances, allowances, events>>

balance_of_msg(owner) ==
    /\ result' = [op |-> "balance_of", res |-> balance_of_impl(balances, owner)]
    /\ UNCHANGED <<total_supply, balances, allowances, events>>

allowance_msg(owner, spender) ==
    /\ result' = [op |-> "allowance",
                  res |-> allowance_impl(allowances, owner, spender)]
    /\ UNCHANGED <<total_supply, balances, allowances, events>>

\* Variant: the value sent is taken out of the supply.
transfer_Burning(caller, to, value) ==
    LET from == caller
        r    == transfer_from_to(balances, events, from, to, value)
    IN  /\ balances' = r.balances
        /\ events' = r.events
        /\ result' = [op |-> "transfer", res |-> r.res]
        /\ total_supply' = IF r.res = Ok THEN total_supply - value ELSE total_supply
        /\ UNCHANGED allowances

transfer(caller, to, value) ==
    LET from == caller
        r    == transfer_from_to(balances, events, from, to, value)
    IN  /\ balances' = r.balances
        /\ events' = r.events
        /\ result' = [op |-> "transfer", res |-> r.res]
        /\ UNCHANGED <<total_supply, allowances>>

\* Variant: the new value is added to the stored allowance.
approve_Additive(caller, spender, value) ==
    LET owner == caller IN
    /\ allowances' = Insert(allowances, <<owner, spender>>,
                            allowance_impl(allowances, owner, spender) + value)
    /\ events' = Append(events, Approval(owner, spender, value))
    /\ result' = [op |-> "approve", res |-> Ok]
    /\ UNCHANGED <<total_supply, balances>>

\* Variant: an approval above the owner's balance is refused.
approve_Checked(caller, spender, value) ==
    LET owner == caller IN
    IF balance_of_impl(balances, owner) < value
    THEN /\ result' = [op |-> "approve", res |-> InsufficientBalance]
         /\ UNCHANGED <<total_supply, balances, allowances, events>>
    ELSE /\ allowances' = Insert(allowances, <<owner, spender>>, value)
         /\ events' = Append(events, Approval(owner, spender, value))
         /\ result' = [op |-> "approve", res |-> Ok]
         /\ UNCHANGED <<total_supply, balances>>

approve(caller, spender, value) ==
    LET owner == caller IN
    /\ allowances' = Insert(allowances, <<owner, spender>>, value)
    /\ events' = Append(events, Approval(owner, spender, value))
    /\ result' = [op |-> "approve", res |-> Ok]
    /\ UNCHANGED <<total_supply, balances>>

\* Variant: the lowered allowance is announced by an Approval event.
transfer_from_EmitsApproval(caller, from, to, value) ==
    LET alw == allowance_impl(allowances, from, caller)
        r   == transfer_from_to(balances, events, from, to, value)
    IN  /\ IF alw < value
           THEN /\ result' = [op |-> "transfer_from", res |-> InsufficientAllowance]
                /\ UNCHANGED <<balances, allowances, events>>
           ELSE IF r.res # Ok
           THEN /\ result' = [op |-> "transfer_from", res |-> r.res]
                /\ UNCHANGED <<balances, allowances, events>>
           ELSE /\ balances' = r.balances
                /\ events' = Append(r.events, Approval(from, caller, alw - value))
                /\ allowances' = Insert(allowances, <<from, caller>>, alw - value)
                /\ result' = [op |-> "transfer_from", res |-> Ok]
        /\ UNCHANGED total_supply

\* Variant: the lowered allowance is stored under the reversed pair.
transfer_from_ReversedKey(caller, from, to, value) ==
    LET alw == allowance_impl(allowances, from, caller)
        r   == transfer_from_to(balances, events, from, to, value)
    IN  /\ IF alw < value
           THEN /\ result' = [op |-> "transfer_from", res |-> InsufficientAllowance]
                /\ UNCHANGED <<balances, allowances, events>>
           ELSE IF r.res # Ok
           THEN /\ result' = [op |-> "transfer_from", res |-> r.res]
                /\ UNCHANGED <<balances, allowances, events>>
           ELSE /\ balances' = r.balances
                /\ events' = r.events
                /\ allowances' = Insert(allowances, <<caller, from>>, alw - value)
                /\ result' = [op |-> "transfer_from", res |-> Ok]
        /\ UNCHANGED total_supply

\* Variant: the allowance must exceed the value, not only reach it.
transfer_from_StrictAllowance(caller, from, to, value) ==
    LET alw == allowance_impl(allowances, from, caller)
        r   == transfer_from_to(balances, events, from, to, value)
    IN  /\ IF alw <= value
           THEN /\ result' = [op |-> "transfer_from", res |-> InsufficientAllowance]
                /\ UNCHANGED <<balances, allowances, events>>
           ELSE IF r.res # Ok
           THEN /\ result' = [op |-> "transfer_from", res |-> r.res]
                /\ UNCHANGED <<balances, allowances, events>>
           ELSE /\ balances' = r.balances
                /\ events' = r.events
                /\ allowances' = Insert(allowances, <<from, caller>>, alw - value)
                /\ result' = [op |-> "transfer_from", res |-> Ok]
        /\ UNCHANGED total_supply

\* Variant: the allowance is lowered by one unit less than the value moved.
transfer_from_Discount(caller, from, to, value) ==
    LET alw == allowance_impl(allowances, from, caller)
        r   == transfer_from_to(balances, events, from, to, value)
    IN  /\ IF alw < value
           THEN /\ result' = [op |-> "transfer_from", res |-> InsufficientAllowance]
                /\ UNCHANGED <<balances, allowances, events>>
           ELSE IF r.res # Ok
           THEN /\ result' = [op |-> "transfer_from", res |-> r.res]
                /\ UNCHANGED <<balances, allowances, events>>
           ELSE /\ balances' = r.balances
                /\ events' = r.events
                /\ allowances' = Insert(allowances, <<from, caller>>,
                                        IF value > 1 THEN alw - value + 1 ELSE alw - value)
                /\ result' = [op |-> "transfer_from", res |-> Ok]
        /\ UNCHANGED total_supply

\* Variant: the owner of the funds needs no allowance.
transfer_from_OwnerBypass(caller, from, to, value) ==
    LET alw == allowance_impl(allowances, from, caller)
        r   == transfer_from_to(balances, events, from, to, value)
    IN  /\ IF caller # from /\ alw < value
           THEN /\ result' = [op |-> "transfer_from", res |-> InsufficientAllowance]
                /\ UNCHANGED <<balances, allowances, events>>
           ELSE IF r.res # Ok
           THEN /\ result' = [op |-> "transfer_from", res |-> r.res]
                /\ UNCHANGED <<balances, allowances, events>>
           ELSE /\ balances' = r.balances
                /\ events' = r.events
                /\ allowances' = IF caller = from
                                  THEN allowances
                                  ELSE Insert(allowances, <<from, caller>>, alw - value)
                /\ result' = [op |-> "transfer_from", res |-> Ok]
        /\ UNCHANGED total_supply

\* Variant: no allowance check; the allowance is lowered as far as it goes.
transfer_from_Unchecked(caller, from, to, value) ==
    LET alw == allowance_impl(allowances, from, caller)
        r   == transfer_from_to(balances, events, from, to, value)
    IN  /\ IF r.res # Ok
           THEN /\ result' = [op |-> "transfer_from", res |-> r.res]
                /\ UNCHANGED <<balances, allowances, events>>
           ELSE /\ balances' = r.balances
                /\ events' = r.events
                /\ allowances' = Insert(allowances, <<from, caller>>,
                                        IF alw < value THEN 0 ELSE alw - value)
                /\ result' = [op |-> "transfer_from", res |-> Ok]
        /\ UNCHANGED total_supply

\* Variant: the allowance is not consumed.
transfer_from_KeepAllowance(caller, from, to, value) ==
    LET alw == allowance_impl(allowances, from, caller)
        r   == transfer_from_to(balances, events, from, to, value)
    IN  /\ IF alw < value
           THEN /\ result' = [op |-> "transfer_from", res |-> InsufficientAllowance]
                /\ UNCHANGED <<balances, allowances, events>>
           ELSE IF r.res # Ok
           THEN /\ result' = [op |-> "transfer_from", res |-> r.res]
                /\ UNCHANGED <<balances, allowances, events>>
           ELSE /\ balances' = r.balances
                /\ events' = r.events
                /\ allowances' = allowances
                /\ result' = [op |-> "transfer_from", res |-> Ok]
        /\ UNCHANGED total_supply

\* Variant: the balances are moved before the allowance is checked.
transfer_from_BalanceFirst(caller, from, to, value) ==
    LET alw == allowance_impl(allowances, from, caller)
        r   == transfer_from_to(balances, events, from, to, value)
    IN  /\ IF r.res # Ok
           THEN /\ result' = [op |-> "transfer_from", res |-> r.res]
                /\ UNCHANGED <<balances, allowances, events>>
           ELSE IF alw < value
           THEN /\ result' = [op |-> "transfer_from", res |-> InsufficientAllowance]
                /\ balances' = r.balances
                /\ events' = r.events
                /\ UNCHANGED allowances
           ELSE /\ balances' = r.balances
                /\ events' = r.events
                /\ allowances' = Insert(allowances, <<from, caller>>, alw - value)
                /\ result' = [op |-> "transfer_from", res |-> Ok]
        /\ UNCHANGED total_supply

\* Variant: the allowance is written before the balances are moved.
transfer_from_EagerAllowance(caller, from, to, value) ==
    LET alw == allowance_impl(allowances, from, caller)
        r   == transfer_from_to(balances, events, from, to, value)
    IN  /\ IF alw < value
           THEN /\ result' = [op |-> "transfer_from", res |-> InsufficientAllowance]
                /\ UNCHANGED <<balances, allowances, events>>
           ELSE /\ allowances' = Insert(allowances, <<from, caller>>, alw - value)
                /\ balances' = r.balances
                /\ events' = r.events
                /\ result' = [op |-> "transfer_from", res |-> r.res]
        /\ UNCHANGED total_supply

transfer_from(caller, from, to, value) ==
    LET alw == allowance_impl(allowances, from, caller)
        r   == transfer_from_to(balances, events, from, to, value)
    IN  /\ IF alw < value
           THEN /\ result' = [op |-> "transfer_from", res |-> InsufficientAllowance]
                /\ UNCHANGED <<balances, allowances, events>>
           ELSE IF r.res # Ok
           THEN /\ result' = [op |-> "transfer_from", res |-> r.res]
                /\ UNCHANGED <<balances, allowances, events>>
           ELSE /\ balances' = r.balances
                /\ events' = r.events
                /\ allowances' = Insert(allowances, <<from, caller>>, alw - value)
                /\ result' = [op |-> "transfer_from", res |-> Ok]
        /\ UNCHANGED total_supply


----------------------------------------------------------------------------
\* Specifications.  A message may be sent by any account with any arguments;
\* exploration stops once the event list has reached its bound.

\* The history after a call of transfer, approve and transfer_from.
NoteTransfer == UNCHANGED <<approved, moved>>

NoteApprove(caller, spender, value) ==
    /\ approved' = Insert(approved, <<caller, spender>>, value)
    /\ moved' = Insert(moved, <<caller, spender>>, 0)

NoteTransferFrom(caller, from, value) ==
    /\ moved' = IF result'.res = Ok /\ value > 0
                THEN Insert(moved, <<from, caller>>,
                            GetOrDefault(moved, <<from, caller>>) + value)
                ELSE moved
    /\ UNCHANGED approved

Running == Len(events) < MaxEvents

RunningPair == Len(events) < MaxPairEvents

Next ==
    \/ \E caller \in Accounts, to \in Accounts, value \in Values :
           Running /\ transfer(caller, to, value) /\ NoteTransfer
    \/ \E caller \in Accounts, spender \in Accounts, value \in Values :
           Running /\ approve(caller, spender, value)
                   /\ NoteApprove(caller, spender, value)
    \/ \E caller \in Accounts, from \in Accounts, to \in Accounts, value \in Values :
           Running /\ transfer_from(caller, from, to, value)
                   /\ NoteTransferFrom(caller, from, value)

Spec == Init /\ [][Next]_vars

NextPair ==
    \/ \E caller \in Pair, to \in Pair, value \in Values :
           RunningPair /\ transfer(caller, to, value) /\ NoteTransfer
    \/ \E caller \in Pair, spender \in Pair, value \in Values :
           RunningPair /\ approve(caller, spender, value)
                       /\ NoteApprove(caller, spender, value)
    \/ \E caller \in Pair, from \in Pair, to \in Pair, value \in Values :
           RunningPair /\ transfer_from(caller, from, to, value)
                       /\ NoteTransferFrom(caller, from, value)

SpecPair == InitPair /\ [][NextPair]_vars

\* One account makes every call, so that each transfer_from has caller = from;
\* recipients and spenders are drawn from the pair.
RunningSolo == Len(events) < MaxSoloEvents

NextSolo ==
    \/ \E caller \in Solo, to \in Pair, value \in Values :
           RunningSolo /\ transfer(caller, to, value) /\ NoteTransfer
    \/ \E caller \in Solo, spender \in Pair, value \in Values :
           RunningSolo /\ approve(caller, spender, value)
                       /\ NoteApprove(caller, spender, value)
    \/ \E caller \in Solo, to \in Pair, value \in Values :
           RunningSolo /\ transfer_from(caller, caller, to, value)
                       /\ NoteTransferFrom(caller, caller, value)

SpecSolo == InitSolo /\ [][NextSolo]_vars

\* The pair again, now also calling the read-only messages.
RunningQuery == Len(events) < MaxQueryEvents

NoteQuery == UNCHANGED <<approved, moved>>

NextQuery ==
    \/ \E caller \in Pair, to \in Pair, value \in Values :
           RunningQuery /\ transfer(caller, to, value) /\ NoteTransfer
    \/ \E caller \in Pair, spender \in Pair, value \in Values :
           RunningQuery /\ approve(caller, spender, value)
                        /\ NoteApprove(caller, spender, value)
    \/ \E caller \in Pair, from \in Pair, to \in Pair, value \in Values :
           RunningQuery /\ transfer_from(caller, from, to, value)
                        /\ NoteTransferFrom(caller, from, value)
    \/ total_supply_msg /\ NoteQuery
    \/ \E owner \in Pair : balance_of_msg(owner) /\ NoteQuery
    \/ \E owner \in Pair, spender \in Pair :
           allowance_msg(owner, spender) /\ NoteQuery

SpecQuery == InitPair /\ [][NextQuery]_vars

\* The approval race, call by call: an owner approves a spender for v1, the
\* spender spends v1, the owner approves the same spender for v2, the spender
\* spends v2.  The event list tells how far the sequence has come and who the
\* owner and the spender are.
RaceOwner == events[2].owner

RaceSpender == events[2].spender

NextRace ==
    \/ \E owner \in Pair, spender \in Pair, value \in Values :
           /\ Len(events) = 1
           /\ approve(owner, spender, value)
           /\ NoteApprove(owner, spender, value)
    \/ \E to \in Pair :
           /\ Len(events) \in {2, 4}
           /\ transfer_from(RaceSpender, RaceOwner, to, events[Len(events)].value)
           /\ NoteTransferFrom(RaceSpender, RaceOwner, events[Len(events)].value)
    \/ \E value \in Values :
           /\ Len(events) = 3
           /\ approve(RaceOwner, RaceSpender, value)
           /\ NoteApprove(RaceOwner, RaceSpender, value)

SpecRace == InitPair /\ [][NextRace]_vars

----------------------------------------------------------------------------
\* Properties

RECURSIVE SumBalances(_, _)
\* Sum of the balances of the accounts in S, an absent entry counting 0.
SumBalances(bal, S) ==
    IF S = {} THEN 0
    ELSE LET a == CHOOSE x \in S : TRUE
         IN  balance_of_impl(bal, a) + SumBalances(bal, S \ {a})

\* The most recently emitted event.
LastEvent == events[Len(events)]

\* Every balance and every allowance reads the same before and after the step.
SameBalances == \A a \in Accounts : balance_of(a)' = balance_of(a)

SameAllowances == \A o \in Accounts, s \in Accounts : allowance(o, s)' = allowance(o, s)

\* C1: Conservation.  In every reachable state the balances of all accounts
\* (absent entry = 0) add up to total_supply, and no balance is stored for
\* anything but an account.
Conservation ==
    /\ DOMAIN balances \subseteq Accounts
    /\ SumBalances(balances, Accounts) = total_supply

\* C1 witness: a delegated transfer has split the supply over two accounts.
ConservationWitness ==
    /\ result = [op |-> "transfer_from", res |-> Ok]
    /\ \E a \in Accounts, b \in Accounts :
           a # b /\ balance_of(a) > 0 /\ balance_of(b) > 0

\* C2: a transfer(to, value) by a caller holding at least value, with
\* to # caller, returns Ok, lowers the caller's balance by exactly value,
\* raises to's balance by exactly value and leaves every other balance and
\* every allowance as it was.
TransferMoves ==
    [][result'.op = "transfer" =>
       \A caller \in Accounts, to \in Accounts, value \in Values :
         (/\ balance_of(caller) >= value
          /\ to # caller
          /\ transfer(caller, to, value))
         => /\ result'.res = Ok
            /\ balance_of(caller)' = balance_of(caller) - value
            /\ balance_of(to)' = balance_of(to) + value
            /\ \A x \in Accounts \ {caller, to} : balance_of(x)' = balance_of(x)
            /\ SameAllowances
            /\ UNCHANGED <<allowances, total_supply>>]_vars

\* C2 witness: a transfer of a positive value between two different accounts
\* has succeeded.
TransferMovesWitness ==
    /\ result = [op |-> "transfer", res |-> Ok]
    /\ LastEvent.kind = "Transfer"
    /\ LastEvent.from # LastEvent.to
    /\ LastEvent.value > 0
    /\ balance_of(LastEvent.to) = LastEvent.value
    /\ balance_of(LastEvent.from) = total_supply - LastEvent.value

\* C3: a transfer(to, value) by a caller holding strictly less than value
\* returns Err(InsufficientBalance) and changes neither the balances, the
\* allowances, the total supply nor the event list.
TransferRejected ==
    [][result'.op = "transfer" =>
       \A caller \in Accounts, to \in Accounts, value \in Values :
         (/\ balance_of(caller) < value
          /\ transfer(caller, to, value))
         => /\ result'.res = InsufficientBalance
            /\ UNCHANGED <<balances, allowances, total_supply, events>>]_vars

\* C3 witness: a transfer has been refused for lack of balance although
\* tokens exist.
TransferRejectedWitness ==
    /\ result = [op |-> "transfer", res |-> InsufficientBalance]
    /\ total_supply > 0

TransferFromNotAllowed ==
    [][result'.op = "transfer_from" =>
       \A caller \in Pair, from \in Pair, to \in Pair, value \in Values :
         (/\ allowance(from, caller) < value
          /\ transfer_from(caller, from, to, value))
         => /\ result'.res = InsufficientAllowance
            /\ UNCHANGED <<balances, allowances, total_supply, events>>]_vars

\* C5 witness: a delegated transfer has been refused for lack of allowance
\* while an owner who granted an allowance holds enough for any value.
TransferFromNotAllowedWitness ==
    /\ result = [op |-> "transfer_from", res |-> InsufficientAllowance]
    /\ \E o \in Accounts, s \in Accounts :
           allowance(o, s) > 0 /\ balance_of(o) >= MaxValue

\* C6: a transfer_from(from, to, value) by a caller whose allowance covers
\* value while from's balance is strictly less than value returns
\* Err(InsufficientBalance); the allowance is not consumed, no balance
\* changes and no event is recorded.
TransferFromUnfunded ==
    [][result'.op = "transfer_from" =>
       \A caller \in Pair, from \in Pair, to \in Pair, value \in Values :
         (/\ allowance(from, caller) >= value
          /\ balance_of(from) < value
          /\ transfer_from(caller, from, to, value))
         => /\ result'.res = InsufficientBalance
            /\ UNCHANGED <<balances, allowances, total_supply, events>>]_vars

\* C6 witness: a delegated transfer has been refused for lack of balance;
\* the allowance granted just before is still whole.
TransferFromUnfundedWitness ==
    /\ result = [op |-> "transfer_from", res |-> InsufficientBalance]
    /\ LastEvent.kind = "Approval"
    /\ LastEvent.value > 0
    /\ allowance(LastEvent.owner, LastEvent.spender) = LastEvent.value
    /\ balance_of(LastEvent.owner) < LastEvent.value

ApproveFrame ==
    [][result'.op = "approve" =>
       \A owner \in Pair, spender \in Pair, value \in Values :
         approve(owner, spender, value)
         => /\ result'.res = Ok
            /\ UNCHANGED <<balances, total_supply>>
            /\ \A o \in Accounts, s \in Accounts :
                   <<o, s>> # <<owner, spender>> => allowance(o, s)' = allowance(o, s)
            /\ DOMAIN allowances' = DOMAIN allowances \cup {<<owner, spender>>}]_vars

\* C8 witness: an approve of more than the total supply has succeeded while
\* the reverse pair keeps the non-zero allowance it was given before.
ApproveFrameWitness ==
    /\ result = [op |-> "approve", res |-> Ok]
    /\ LastEvent.kind = "Approval"
    /\ LastEvent.owner # LastEvent.spender
    /\ LastEvent.value > total_supply
    /\ allowance(LastEvent.owner, LastEvent.spender) = LastEvent.value
    /\ allowance(LastEvent.spender, LastEvent.owner) > 0
    /\ allowance(LastEvent.spender, LastEvent.owner) # LastEvent.value

\* C9: construction is defined for every creator A and every supply s, 0
\* included, and right after it total_supply = s, A holds s, every other
\* account holds 0, every allowance is 0 and the event list holds exactly
\* one entry, Transfer{from: None, to: Some(A), value: s}.
ConstructorState ==
    /\ \A creator \in Accounts, s \in Supplies :
           LET built == new(creator, s) IN
           /\ built.total_supply = s
           /\ balance_of_impl(built.balances, creator) = s
           /\ built.events = <<Transfer(None, creator, s)>>
    /\ result.op = "new"
       => /\ result.res = Ok
          /\ Len(events) = 1
          /\ events[1].kind = "Transfer"
          /\ events[1].from = None
          /\ events[1].to \in Accounts
          /\ events[1].value = total_supply
          /\ total_supply \in Supplies
          /\ balance_of(events[1].to) = total_supply
          /\ \A x \in Accounts \ {events[1].to} : balance_of(x) = 0
          /\ \A o \in Accounts, s \in Accounts : allowance(o, s) = 0

\* C9 witness: a contract constructed with a non-zero supply.
ConstructorStateWitness ==
    /\ result.op = "new"
    /\ total_supply = MaxSupply
    /\ \E a \in Accounts : balance_of(a) = MaxSupply

\* C10: a transfer to oneself returns Ok exactly when the caller holds at
\* least value; it then leaves every balance as it was and still appends one
\* Transfer{from: caller, to: caller, value} event.  Otherwise it returns
\* Err(InsufficientBalance) and changes nothing.
SelfTransfer ==
    [][result'.op = "transfer" =>
       \A caller \in Accounts, value \in Values :
         transfer(caller, caller, value)
         => IF balance_of(caller) >= value
            THEN /\ result'.res = Ok
                 /\ SameBalances
                 /\ events' = Append(events, Transfer(caller, caller, value))
            ELSE /\ result'.res = InsufficientBalance
                 /\ UNCHANGED <<balances, events>>]_vars

\* C10 witness: an account has transferred a positive value to itself.
SelfTransferWitness ==
    /\ result = [op |-> "transfer", res |-> Ok]
    /\ LastEvent.kind = "Transfer"
    /\ LastEvent.from = LastEvent.to
    /\ LastEvent.value > 0
    /\ balance_of(LastEvent.from) = total_supply

\* C11: total_supply never changes after construction: after every call,
\* successful or failing, it is still the value given to the constructor
\* (the value of the mint event), and the queries total_supply, balance_of
\* and allowance change neither the storage nor the event list.
SupplyFixed ==
    [][/\ total_supply' = total_supply
       /\ events'[1] = events[1]
       /\ events'[1].value = total_supply'
       /\ result'.op \in {"total_supply", "balance_of", "allowance"}
          => UNCHANGED <<total_supply, balances, allowances, events>>
       /\ result'.op = "total_supply" => result'.res = total_supply]_vars

\* C11 witness: total_supply was queried after a transfer of a positive
\* value and returned the constructor's value.
SupplyFixedWitness ==
    /\ result.op = "total_supply"
    /\ result.res = events[1].value
    /\ result.res > 0
    /\ Len(events) = 2
    /\ LastEvent.kind = "Transfer"
    /\ LastEvent.value > 0
    /\ LastEvent.from # LastEvent.to

\* C12: notification log.  A successful transfer or transfer_from appends
\* exactly one Transfer{from: Some(from), to: Some(to), value}, an approve
\* appends exactly one Approval{owner: caller, spender, value}, a failing
\* call appends nothing and transfer_from never appends an Approval; so the
\* list is the mint entry followed by the successful mutations in call order.
\* (Each clause reads: the step appends as stated, or it is not that call.)
EventLog ==
    [][/\ result'.op = "transfer" =>
          \A caller \in Pair, to \in Pair, value \in Values :
            \/ events' = IF result'.res = Ok
                          THEN Append(events, Transfer(caller, to, value))
                          ELSE events
            \/ ~transfer(caller, to, value)
       /\ result'.op = "approve" =>
          \A owner \in Pair, spender \in Pair, value \in Values :
            \/ events' = Append(events, Approval(owner, spender, value))
            \/ ~approve(owner, spender, value)
       /\ result'.op = "transfer_from" =>
          \A caller \in Pair, from \in Pair, to \in Pair, value \in Values :
            \/ events' = IF result'.res = Ok
                          THEN Append(events, Transfer(from, to, value))
                          ELSE events
            \/ ~transfer_from(caller, from, to, value)
       /\ events'[1] = events[1]
       /\ events'[1].kind = "Transfer" /\ events'[1].from = None
       /\ \A i \in 2 .. Len(events') :
              events'[i].kind = "Transfer"
              => events'[i].from \in Accounts /\ events'[i].to \in Accounts]_vars

\* C12 witness: after the mint, an approve and a funded transfer_from, the
\* list holds the mint, the Approval and the Transfer, in that order.
EventLogWitness ==
    /\ result = [op |-> "transfer_from", res |-> Ok]
    /\ Len(events) = 3
    /\ events[1].kind = "Transfer" /\ events[1].from = None
    /\ events[2].kind = "Approval" /\ events[2].value > 0
    /\ events[3].kind = "Transfer"
    /\ events[3].from = events[2].owner
    /\ events[3].value = events[2].value

\* C13: no arithmetic fault is reachable.  Every stored balance lies in
\* 0 .. total_supply and every stored allowance is >= 0; and for every call
\* that passes the balance check in a reachable state, the debit
\* from_balance - value is >= 0 and the credit to_balance + value, with
\* to's balance read after the debit was written (so also when from = to),
\* is at most total_supply; an allowance that passes the allowance check
\* leaves allowance - value >= 0.
NoArithmeticFault ==
    /\ \A a \in DOMAIN balances : balances[a] \in 0 .. total_supply
    /\ \A p \in DOMAIN allowances : allowances[p] >= 0
    /\ \A from \in Accounts, to \in Accounts, value \in Values :
           LET r == transfer_from_to(balances, events, from, to, value) IN
           r.res = Ok
           => /\ balance_of(from) - value >= 0
              /\ \A a \in DOMAIN r.balances : r.balances[a] \in 0 .. total_supply
              /\ balance_of_impl(Insert(balances, from, balance_of(from) - value), to)
                     + value <= total_supply
    /\ \A from \in Accounts, caller \in Accounts, value \in Values :
           ~(allowance(from, caller) < value) => allowance(from, caller) - value >= 0

\* C13 witness: an account has moved the whole, non-zero supply to itself
\* through transfer_from; its balance is again the total supply.
NoArithmeticFaultWitness ==
    /\ result = [op |-> "transfer_from", res |-> Ok]
    /\ LastEvent.kind = "Transfer"
    /\ LastEvent.from = LastEvent.to
    /\ LastEvent.value = total_supply
    /\ total_supply > 0
    /\ balance_of(LastEvent.from) = total_supply

\* C14: an allowance is never restored automatically.  In a single step
\* allowance(o, s) grows only if the step is approve(s, v) called by o;
\* transfer changes no allowance; transfer_from only lowers, or keeps when
\* value is 0, the one allowance (from, caller) and changes no other.
\* (Only a step that writes the allowances Mapping has anything to show.)
AllowanceNotRestored ==
    [][allowances' # allowances =>
       /\ \A o \in Accounts, s \in Accounts :
              allowance(o, s)' > allowance(o, s)
              => /\ result'.op = "approve"
                 /\ \E v \in Values : approve(o, s, v)
       /\ result'.op # "transfer"
       /\ result'.op = "transfer_from" =>
          \A caller \in Pair, from \in Pair, to \in Pair, value \in Values :
            \/ /\ allowance(from, caller)' <= allowance(from, caller)
               /\ value = 0 => allowance(from, caller)' = allowance(from, caller)
               /\ \A o \in Accounts, s \in Accounts :
                      <<o, s>> # <<from, caller>>
                      => allowance(o, s)' = allowance(o, s)
            \/ ~transfer_from(caller, from, to, value)]_vars

\* C14 witness: a transfer_from has lowered the allowance below the value
\* approved just before, and nothing has raised it since.
AllowanceNotRestoredWitness ==
    /\ result = [op |-> "transfer_from", res |-> Ok]
    /\ Len(events) >= 3
    /\ events[Len(events) - 1].kind = "Approval"
    /\ allowance(events[Len(events) - 1].owner, events[Len(events) - 1].spender)
           < events[Len(events) - 1].value
    /\ allowance(events[Len(events) - 1].spender, events[Len(events) - 1].owner) = 0

\* The balance the constructor gave to account a.
MintedTo(a) == IF events[1].to = a THEN events[1].value ELSE 0

\* What a Transfer event took out of account a.
Outflow(e, a) == IF e.from = a /\ e.to # a THEN e.value ELSE 0

\* C15: the ledger does not protect against the approval race.  In the
\* sequence approve(S, v1) by O, transfer_from(O, _, v1) by S, approve(S, v2)
\* by O, transfer_from(O, _, v2) by S, no call is refused when O's balance
\* covers v1 + v2 (v1 for the first two calls), and at its end S has moved
\* v1 and v2 out of O: two Transfer events from O, O's balance lowered by
\* what went to others, the allowance used up.
RaceAccepted ==
    /\ (Len(events) \in {2, 3} /\ MintedTo(RaceOwner) >= events[2].value)
       => result.res = Ok
    /\ (Len(events) \in {4, 5}
        /\ MintedTo(RaceOwner) >= events[2].value + events[4].value)
       => result.res = Ok
    /\ Len(events) = 5
       => /\ events[3] = Transfer(RaceOwner, events[3].to, events[2].value)
          /\ events[4] = Approval(RaceOwner, RaceSpender, events[4].value)
          /\ events[5] = Transfer(RaceOwner, events[5].to, events[4].value)
          /\ allowance(RaceOwner, RaceSpender) = 0
          /\ balance_of(RaceOwner)
                 = MintedTo(RaceOwner) - Outflow(events[3], RaceOwner)
                                       - Outflow(events[5], RaceOwner)

\* C15 witness: the spender has taken v1 + v2 > 0 from the owner to itself
\* although no approve granted more than max(v1, v2) < v1 + v2.
RaceAcceptedWitness ==
    /\ Len(events) = 5
    /\ RaceOwner # RaceSpender
    /\ events[2].value > 0 /\ events[4].value > 0
    /\ events[3].to = RaceSpender /\ events[5].to = RaceSpender
    /\ balance_of(RaceSpender) = events[2].value + events[4].value
    /\ balance_of(RaceOwner) = MintedTo(RaceOwner) - balance_of(RaceSpender)

\* C16: authorization.  In a single step the balance of an account a becomes
\* smaller only if the step is a successful transfer called by a itself, or
\* a successful transfer_from with from = a whose caller's allowance from a
\* covered the value right before the step.
Authorized ==
    [][balances' # balances =>
       \A a \in Accounts :
         balance_of(a)' < balance_of(a)
         => /\ result'.res = Ok
            /\ \/ /\ result'.op = "transfer"
                  /\ \E to \in Pair, value \in Values : transfer(a, to, value)
               \/ /\ result'.op = "transfer_from"
                  /\ \E caller \in Pair, to \in Pair, value \in Values :
                         /\ allowance(a, caller) >= value
                         /\ transfer_from(caller, a, to, value)]_vars

\* C16 witness: a spender has lowered an owner's balance within the
\* allowance the owner approved just before.
AuthorizedWitness ==
    /\ result = [op |-> "transfer_from", res |-> Ok]
    /\ Len(events) >= 3
    /\ LastEvent.kind = "Transfer"
    /\ LastEvent.to # LastEvent.from
    /\ LastEvent.value > 0
    /\ events[Len(events) - 1].kind = "Approval"
    /\ events[Len(events) - 1].owner = LastEvent.from
    /\ events[Len(events) - 1].spender # LastEvent.from
    /\ events[Len(events) - 1].value >= LastEvent.value
    /\ balance_of(LastEvent.from) = MintedTo(LastEvent.from) - LastEvent.value

ZeroValue ==
    [][/\ result'.op = "transfer"
          => \A caller \in Accounts, to \in Accounts :
               transfer(caller, to, 0)
               => /\ result'.res = Ok
                  /\ SameBalances
                  /\ SameAllowances
                  /\ events' = Append(events, Transfer(caller, to, 0))
       /\ result'.op = "transfer_from"
          => \A caller \in Accounts, from \in Accounts, to \in Accounts :
               transfer_from(caller, from, to, 0)
               => /\ result'.res = Ok
                  /\ SameBalances
                  /\ SameAllowances
                  /\ events' = Append(events, Transfer(from, to, 0))]_vars

\* C18 witness: with no approve ever called, a caller has moved value 0 out
\* of an account that holds nothing, to a third account.
ZeroValueWitness ==
    \E caller \in Accounts, from \in Accounts, to \in Accounts :
        /\ caller # from /\ from # to /\ caller # to
        /\ result = [op |-> "transfer_from", res |-> Ok]
        /\ approved = EmptyMapping
        /\ <<from, caller>> \in DOMAIN allowances
        /\ balance_of(from) = 0
        /\ LastEvent = Transfer(from, to, 0)

\* C19: no implicit self-allowance.  A transfer_from whose caller is `from`
\* itself, with value > 0, is refused with InsufficientAllowance and changes
\* nothing when allowance(from, from) < value, whatever the balance of from
\* is; it is not refused for lack of allowance when the account has approved
\* itself for at least the value.
NoSelfAllowance ==
    [][result'.op = "transfer_from" =>
       \A from \in Solo, to \in Pair, value \in Values :
         (value > 0 /\ transfer_from(from, from, to, value))
         => /\ allowance(from, from) < value
               => /\ result'.res = InsufficientAllowance
                  /\ UNCHANGED <<total_supply, balances, allowances, events>>
            /\ allowance(from, from) >= value
               => result'.res # InsufficientAllowance]_vars

\* C19 witness: the account holds the largest value, has approved itself
\* for less, and its latest call, a transfer_from out of its own balance,
\* was refused for lack of allowance.
NoSelfAllowanceWitness ==
    \E a \in Solo :
        /\ result = [op |-> "transfer_from", res |-> InsufficientAllowance]
        /\ balance_of(a) = MaxValue
        /\ allowance(a, a) < MaxValue
        /\ DOMAIN balances = Solo

====
